---- MODULE Spec2Model ----
(***************************************************************************)
(* Model of the realtime synchronisation core of the chat frontend:        *)
(*   - SocketClient (services/socket): connect / send / disconnect and the *)
(*     onopen / onmessage / onerror / onclose handlers with the reconnect  *)
(*     timer and its exponential backoff;                                  *)
(*   - the App component (chat_frontend/src/App.js): activeRoomId, the     *)
(*     messages timeline, the history-load effect, the socket effect with  *)
(*     handleIncoming, and handleSend.                                     *)
(*                                                                         *)
(* Two specifications are given.  SpecSocket drives one SocketClient       *)
(* instance with an arbitrary consumer (any order of connect, send and     *)
(* disconnect calls, an optional asynchronous getAuthToken).  Spec is the  *)
(* App: the only calls it makes on a SocketClient are those of the socket  *)
(* effect (construct + connect on mount and on every room change,          *)
(* disconnect in the effect's cleanup).                                    *)
(*                                                                         *)
(* Environment assumptions (the platform, not the repository):             *)
(*   - WebSocket follows the WHATWG standard: a message event fires only   *)
(*     while readyState is OPEN, close() moves CONNECTING/OPEN to CLOSING, *)
(*     and every socket fires exactly one close event;                     *)
(*   - a React state change made in an event handler is rendered and its   *)
(*     effects (cleanup of the old socket effect, the load effect, the new *)
(*     socket effect) run before any other task;                           *)
(*   - the consumer's onOpen, onError and onClose callbacks return         *)
(*     normally; its onMessage callback may throw (the onmessage handler   *)
(*     has a try/catch around it).                                         *)
(***************************************************************************)
EXTENDS Integers, Sequences, FiniteSets, TLC

VARIABLES
    clients,        \* SocketClient instances, by creation order
    sockets,        \* WebSocket objects created by `new WebSocket(url)`
    timers,         \* pending setTimeout timers (ids)
    scheduled,      \* every setTimeout call so far: <<client, delay>>
    callbacks,      \* the consumer callbacks invoked by the latest step, in order
    incomingRoom,   \* roomId of the event handleIncoming got in the latest step
    sendResult,     \* return value of the latest send() call ("none" otherwise)
    lastCall,       \* the consumer's call made by the latest step, and the
                    \* socket whose send() it invoked
    activeRoomId,   \* App state
    messages,       \* App state: the timeline
    loads,          \* getMessages requests in flight
    sends,          \* sendMessage requests in flight
    store,          \* the backend's saved messages per room
    alerts,         \* number of alert() dialogs the latest step raised
    failedLoad      \* room of the getMessages request whose failure the
                    \* latest step logged ("none" otherwise)

sockVars == <<clients, sockets, timers, scheduled, callbacks, sendResult, lastCall>>
appVars  == <<incomingRoom, activeRoomId, messages, loads, sends, store, alerts,
              failedLoad>>
vars     == <<clients, sockets, timers, scheduled, callbacks, sendResult,
              lastCall, incomingRoom, activeRoomId, messages, loads, sends, store,
              alerts, failedLoad>>

----------------------------------------------------------------------------
(* Bounds of the model *)

\* WebSocket objects created in one behaviour
MaxSockets == 3
\* connect() calls suspended at `await this.getAuthToken()` at one time
MaxPending == 1

\* messages the backend saves in one behaviour (sends in flight count as saved)
MaxPosts == 1
\* room selections in one behaviour
MaxSwitches == 1
\* entries of the timeline: every saved message and one duplicate
MaxTimeline == MaxPosts + 1
\* WebSocket objects the App's clients create in one behaviour: one per
\* socket effect, and one reconnect
MaxAppSockets == MaxSwitches + 1

(* Program constants *)

\* default of the constructor's reconnectDelayMs option
DefaultReconnectDelayMs == 1000
\* the cap in Math.min(this.reconnectDelayMs * 2, 15000)
MaxReconnectDelayMs == 15000

\* reconnectDelayMs values a consumer configures in SocketClient({...})
InitialDelays == {DefaultReconnectDelayMs, 3000, 20000}

Rooms == {"general", "dev"}

Min(a, b) == IF a <= b THEN a ELSE b

----------------------------------------------------------------------------
(* Values on the wire *)

\* A raw text frame is either the JSON encoding of a value (json = TRUE, v the
\* value it encodes) or text that is not JSON.
TextFrame == [json |-> FALSE, v |-> [t |-> "text"]]
JsonFrame(v) == [json |-> TRUE, v |-> v]
NullValue == [t |-> "null"]

\* JSON.parse(evt.data): the decoded value, or a SyntaxError
JSONparse(frame) ==
    IF frame.json THEN [ok |-> TRUE, val |-> frame.v] ELSE [ok |-> FALSE]

\* evt.data handed over unparsed: the raw string, never the decoded value
RawData(frame) == [t |-> "raw", frame |-> frame]

----------------------------------------------------------------------------
(* SocketClient *)

NoSocket == 0
NoTimer == 0

\* constructor: the fields set at lines 57-67.  room is the activeRoomId the
\* consumer's handleIncoming closes over; hooks says whether the consumer
\* passed onOpen / onClose / onError; tokenFn whether getAuthToken is a function.
NewClient(room, autoReconnect, reconnectDelayMs, tokenFn, hooks) ==
    [ room             |-> room,
      hooks            |-> hooks,
      tokenFn          |-> tokenFn,
      autoReconnect    |-> autoReconnect,
      reconnectDelayMs |-> reconnectDelayMs,
      ws               |-> NoSocket,
      reconnectTimer   |-> NoTimer,
      closedExplicitly |-> FALSE,
      awaiting         |-> 0,        \* connect() calls suspended at the await
      configuredDelay  |-> reconnectDelayMs,  \* history: the option as passed
      disconnected     |-> FALSE ]   \* history: disconnect() was called

\* The socket-side state as one value, so that handlers compose.
World == [clients |-> clients, sockets |-> sockets,
          timers |-> timers, scheduled |-> scheduled]

\* new WebSocket(url); this._ws = it
OpenSocket(w, c) ==
    [w EXCEPT !.sockets = Append(@, [owner |-> c, readyState |-> "CONNECTING",
                                     explicit |-> FALSE]),
              !.clients[c].ws = Len(w.sockets) + 1]

\* connect(), up to its suspension point or to its end
SocketConnect(w, c) ==
    LET w1 == [w EXCEPT !.clients[c].closedExplicitly = FALSE]
    IN  IF w.clients[c].tokenFn
        THEN [w1 EXCEPT !.clients[c].awaiting = @ + 1]
        ELSE OpenSocket(w1, c)

\* connect() resumed with the token
SocketConnectResume(w, c) ==
    OpenSocket([w EXCEPT !.clients[c].awaiting = @ - 1], c)

\* WebSocket.close(): CONNECTING or OPEN becomes CLOSING, otherwise no effect
WsClose(readyState) ==
    IF readyState \in {"CONNECTING", "OPEN"} THEN "CLOSING" ELSE readyState

SocketDisconnectKeepsTimer(w, c) ==
    LET cl == w.clients[c]
    IN  [w EXCEPT
           !.clients[c] = [cl EXCEPT !.closedExplicitly = TRUE,
                                     !.ws = NoSocket,
                                     !.disconnected = TRUE],
           !.sockets = [s \in DOMAIN w.sockets |->
                          IF w.sockets[s].owner # c THEN w.sockets[s]
                          ELSE [w.sockets[s] EXCEPT
                                  !.readyState =
                                      IF s = cl.ws THEN WsClose(@) ELSE @,
                                  !.explicit = TRUE]]]

\* disconnect()
SocketDisconnect(w, c) ==
    LET cl == w.clients[c]
    IN  [w EXCEPT
           !.clients[c] = [cl EXCEPT !.closedExplicitly = TRUE,
                                     !.ws = NoSocket,
                                     !.disconnected = TRUE],
           !.timers = @ \ {cl.reconnectTimer},
           !.sockets = [s \in DOMAIN w.sockets |->
                          IF w.sockets[s].owner # c THEN w.sockets[s]
                          ELSE [w.sockets[s] EXCEPT
                                  !.readyState =
                                      IF s = cl.ws THEN WsClose(@) ELSE @,
                                  !.explicit = TRUE]]]

SocketOnCloseKeepsTimer(w, s) ==
    LET c  == w.sockets[s].owner
        cl == w.clients[c]
        w1 == [w EXCEPT !.sockets[s].readyState = "CLOSED",
                        !.clients[c].ws = NoSocket]
        id == Len(w.scheduled) + 1
    IN  IF ~cl.closedExplicitly /\ cl.autoReconnect
        THEN [w1 EXCEPT
                !.timers = @ \cup {id},
                !.scheduled = Append(@, <<c, cl.reconnectDelayMs>>),
                !.clients[c].reconnectTimer = id,
                !.clients[c].reconnectDelayMs =
                    Min(cl.reconnectDelayMs * 2, MaxReconnectDelayMs)]
        ELSE w1

ShouldReconnectInverted(cl) == cl.closedExplicitly /\ cl.autoReconnect

\* the test of the close handler
ShouldReconnect(cl) == ~cl.closedExplicitly /\ cl.autoReconnect

\* Math.min(this.reconnectDelayMs * 2, 15000)
NextDelay(d) == Min(d * 2, MaxReconnectDelayMs)

\* the delay handed to setTimeout by the close handler
TimerDelay(cl) == cl.reconnectDelayMs

\* this._ws.onclose, run for the close event of socket s
SocketOnClose(w, s) ==
    LET c  == w.sockets[s].owner
        cl == w.clients[c]
        w1 == [w EXCEPT !.sockets[s].readyState = "CLOSED",
                        !.clients[c].ws = NoSocket]
        id == Len(w.scheduled) + 1
    IN  IF ShouldReconnect(cl)
        THEN [w1 EXCEPT
                !.timers = (@ \ {cl.reconnectTimer}) \cup {id},
                !.scheduled = Append(@, <<c, TimerDelay(cl)>>),
                !.clients[c].reconnectTimer = id,
                !.clients[c].reconnectDelayMs = NextDelay(cl.reconnectDelayMs)]
        ELSE w1

SocketSendWhenSet(w, c) == w.clients[c].ws # NoSocket

\* send(): true exactly when this._ws is set and OPEN
SocketSend(w, c) ==
    /\ w.clients[c].ws # NoSocket
    /\ w.sockets[w.clients[c].ws].readyState = "OPEN"

\* send(): the socket whose send(payload) it invokes, if any
SocketSendsOn(w, c) == IF SocketSend(w, c) THEN w.clients[c].ws ELSE NoSocket

\* this._ws.onmessage: the onMessage invocations it makes, in order.
\* consumerThrows: the consumer's callback throws when given a decoded value.
SocketOnMessage(frame, consumerThrows) ==
    LET p == JSONparse(frame)
    IN  IF ~p.ok THEN << RawData(frame) >>
        ELSE IF consumerThrows THEN << p.val, RawData(frame) >>
        ELSE << p.val >>

Awaiting(w) ==
    LET RECURSIVE Sum(_)
        Sum(n) == IF n = 0 THEN 0 ELSE w.clients[n].awaiting + Sum(n - 1)
    IN  Sum(Len(w.clients))

\* a call of connect() stays within the bound on sockets
CanConnect(c, max) ==
    /\ Len(sockets) + Awaiting(World) < max
    /\ clients[c].tokenFn => clients[c].awaiting < MaxPending

\* no call of connect(), send() or disconnect() by the consumer
NoCall == [op |-> "none", to |-> NoSocket]

Commit(w) ==
    /\ clients' = w.clients
    /\ sockets' = w.sockets
    /\ timers' = w.timers
    /\ scheduled' = w.scheduled

\* `this.onOpen && this.onOpen()` and the like: invoked only when supplied
Hook(c, name, s) ==
    IF clients[c].hooks
    THEN << [cb |-> name, sock |-> s, val |-> NullValue] >>
    ELSE << >>

OnMessageCalls(s, vals) ==
    [i \in DOMAIN vals |-> [cb |-> "onMessage", sock |-> s, val |-> vals[i]]]

----------------------------------------------------------------------------
(* The steps of one SocketClient and of its sockets.  Each defines the      *)
(* socket-side variables only.                                              *)

\* a call of connect() by the consumer
Connect(c) ==
    /\ CanConnect(c, MaxSockets)
    /\ Commit(SocketConnect(World, c))
    /\ callbacks' = << >>
    /\ sendResult' = "none"
    /\ lastCall' = [op |-> "connect", to |-> NoSocket]

\* getAuthToken() resolves and connect() runs to its end
TokenResolve(c) ==
    /\ clients[c].awaiting > 0
    /\ Commit(SocketConnectResume(World, c))
    /\ callbacks' = << >>
    /\ sendResult' = "none"
    /\ lastCall' = NoCall

\* getAuthToken() rejects: connect() rejects at the await, nothing else runs
TokenReject(c) ==
    /\ clients[c].awaiting > 0
    /\ clients' = [clients EXCEPT ![c].awaiting = @ - 1]
    /\ callbacks' = << >>
    /\ sendResult' = "none"
    /\ lastCall' = NoCall
    /\ UNCHANGED <<sockets, timers, scheduled>>

\* a call of disconnect() by the consumer
Disconnect(c) ==
    /\ Commit(SocketDisconnect(World, c))
    /\ callbacks' = << >>
    /\ sendResult' = "none"
    /\ lastCall' = [op |-> "disconnect", to |-> NoSocket]

\* a call of send() by the consumer
Send(c) ==
    /\ sendResult' = IF SocketSend(World, c) THEN "true" ELSE "false"
    /\ lastCall' = [op |-> "send", to |-> SocketSendsOn(World, c)]
    /\ callbacks' = << >>
    /\ UNCHANGED <<clients, sockets, timers, scheduled>>

\* the reconnect timer t fires: () => this.connect()
TimerFire(t, max) ==
    /\ t \in timers
    /\ CanConnect(scheduled[t][1], max)
    /\ Commit(SocketConnect([World EXCEPT !.timers = @ \ {t}], scheduled[t][1]))
    /\ callbacks' = << >>
    /\ sendResult' = "none"
    /\ lastCall' = NoCall

\* the open event of socket s
SockOpen(s) ==
    /\ sockets[s].readyState = "CONNECTING"
    /\ sockets' = [sockets EXCEPT ![s].readyState = "OPEN"]
    /\ callbacks' = Hook(sockets[s].owner, "onOpen", s)
    /\ sendResult' = "none"
    /\ lastCall' = NoCall
    /\ UNCHANGED <<clients, timers, scheduled>>

\* a message event of socket s carrying frame
SockMessage(s, frame, consumerThrows) ==
    /\ sockets[s].readyState = "OPEN"
    /\ callbacks' = OnMessageCalls(s, SocketOnMessage(frame, consumerThrows))
    /\ sendResult' = "none"
    /\ lastCall' = NoCall
    /\ UNCHANGED <<clients, sockets, timers, scheduled>>

SockErrorCloses(s) ==
    /\ sockets[s].readyState # "CLOSED"
    /\ clients[sockets[s].owner].hooks
    /\ Commit(SocketOnClose(World, s))
    /\ callbacks' = Hook(sockets[s].owner, "onError", s)
    /\ sendResult' = "none"
    /\ lastCall' = NoCall

\* an error event of socket s
SockError(s) ==
    /\ sockets[s].readyState # "CLOSED"
    /\ clients[sockets[s].owner].hooks
    /\ callbacks' = Hook(sockets[s].owner, "onError", s)
    /\ sendResult' = "none"
    /\ lastCall' = NoCall
    /\ UNCHANGED <<clients, sockets, timers, scheduled>>

\* the close event of socket s (the peer or the network ended it, or the
\* closing handshake started by close() completed)
SockClose(s) ==
    /\ sockets[s].readyState # "CLOSED"
    /\ Commit(SocketOnClose(World, s))
    /\ callbacks' = Hook(sockets[s].owner, "onClose", s)
    /\ sendResult' = "none"
    /\ lastCall' = NoCall

----------------------------------------------------------------------------
(* SpecSocket: one SocketClient driven by an arbitrary consumer *)

SocketFrames == {TextFrame, JsonFrame(NullValue), JsonFrame([t |-> "num"])}

InitApp ==
    /\ activeRoomId = "general"
    /\ messages = << >>
    /\ loads = << >>
    /\ sends = << >>
    /\ store = [r \in Rooms |-> << >>]
    /\ alerts = 0
    /\ failedLoad = "none"
    /\ incomingRoom = "none"

InitSocket ==
    /\ \E auto \in BOOLEAN, d \in InitialDelays, tokenFn \in BOOLEAN :
         clients = << NewClient("general", auto, d, tokenFn, TRUE) >>
    /\ sockets = << >>
    /\ timers = {}
    /\ scheduled = << >>
    /\ callbacks = << >>
    /\ sendResult = "none"
    /\ lastCall = NoCall
    /\ InitApp

NextSocket ==
    \/ Connect(1) /\ UNCHANGED appVars
    \/ TokenResolve(1) /\ UNCHANGED appVars
    \/ TokenReject(1) /\ UNCHANGED appVars
    \/ Disconnect(1) /\ UNCHANGED appVars
    \/ Send(1) /\ UNCHANGED appVars
    \/ \E t \in timers : TimerFire(t, MaxSockets) /\ UNCHANGED appVars
    \/ \E s \in DOMAIN sockets : SockOpen(s) /\ UNCHANGED appVars
    \/ \E s \in DOMAIN sockets, f \in SocketFrames, th \in BOOLEAN :
         SockMessage(s, f, th) /\ UNCHANGED appVars
    \/ \E s \in DOMAIN sockets : SockError(s) /\ UNCHANGED appVars
    \/ \E s \in DOMAIN sockets : SockClose(s) /\ UNCHANGED appVars

SpecSocket == InitSocket /\ [][NextSocket]_vars

----------------------------------------------------------------------------
(* The backend: History Fetcher and push source *)

Drafts == {"hi"}

\* a message as the backend saves it
Message(id, roomId, me, content) ==
    [t |-> "msg", id |-> id, roomId |-> roomId, me |-> me,
     content |-> content, ts |-> "server"]

\* the backlog the backend starts with: none
InitialStore == [r \in Rooms |-> << >>]

RECURSIVE Saved(_, _)
Saved(st, rs) ==
    IF rs = {} THEN 0
    ELSE LET r == CHOOSE x \in rs : TRUE
         IN  Len(st[r]) + Saved(st, rs \ {r})

\* uuidv4(): an identifier no saved message has
FreshId == Saved(store, Rooms) + 1

CanPost == Saved(store, Rooms) + Len(sends) < MaxPosts

\* every saved message, any room
StoredMessages == UNION {{store[r][i] : i \in DOMAIN store[r]} : r \in Rooms}

\* the frames the backend may push: any saved message (a first delivery, a
\* re-delivery, the echo of a send) and frames that are not message-shaped
AppFrames ==
    {TextFrame, JsonFrame(NullValue)} \cup {JsonFrame(m) : m \in StoredMessages}

\* what getMessages(room) may return for a request made when the backlog had
\* `from` messages: the backlog as it was at some moment since (it only
\* grows; the window of 200 messages is never reached)
Backlogs(room, from) == {SubSeq(store[room], 1, n) : n \in from..Len(store[room])}

----------------------------------------------------------------------------
(* App *)

\* `!incoming`
Falsy(v) == v.t = "null"

\* incoming.roomId; undefined for a value that has no such property
RoomIdOf(v) == IF v.t = "msg" THEN v.roomId ELSE "undefined"

\* { ...incoming, ts: incoming.ts ? incoming.ts : new Date() }
WithTs(v) == IF v.ts = "none" THEN [v EXCEPT !.ts = "now"] ELSE v

AcceptIncomingAnyRoom(incoming, room) == RoomIdOf(incoming) # "undefined"

\* the test of handleIncoming; room is the activeRoomId it closed over
AcceptIncoming(incoming, room) == RoomIdOf(incoming) = room

HandleIncomingRestamping(prev, room, incoming) ==
    IF Falsy(incoming) THEN prev
    ELSE IF AcceptIncoming(incoming, room)
         THEN Append([i \in DOMAIN prev |-> [prev[i] EXCEPT !.ts = "now"]],
                     WithTs(incoming))
         ELSE prev

\* handleIncoming(incoming), as the update it makes to messages
HandleIncoming(prev, room, incoming) ==
    IF Falsy(incoming) THEN prev
    ELSE IF AcceptIncoming(incoming, room)
         THEN Append(prev, WithTs(incoming))
         ELSE prev

RECURSIVE HandleAll(_, _, _)
HandleAll(prev, room, calls) ==
    IF calls = << >> THEN prev
    ELSE HandleAll(HandleIncoming(prev, room, Head(calls).val), room, Tail(calls))

\* the update handleSend makes when sendMessage resolved with saved
AfterSend(prev, saved) == Append(prev, saved)

\* the update the load effect makes when getMessages(room) resolved with body
\* (msgs: what the backend returned; isArray: Array.isArray(msgs))
AfterLoad(prev, room, isArray, msgs) == IF isArray THEN msgs ELSE << >>

AfterLoadFailureShowsError(prev, room) == << [t |-> "error"] >>

\* the update the load effect makes when getMessages(room) failed
AfterLoadFailure(prev, room) == << >>

Remove(seq, i) == [j \in 1..(Len(seq) - 1) |-> IF j < i THEN seq[j] ELSE seq[j + 1]]

\* the SocketClient of the current socket effect
CurrentClient == Len(clients)

\* a step that invokes no consumer callback, no send(), no alert() and no
\* handleIncoming
Quiet == callbacks' = << >> /\ sendResult' = "none" /\ lastCall' = NoCall
            /\ alerts' = 0 /\ failedLoad' = "none"
            /\ incomingRoom' = "none"

\* onSelectRoom={setActiveRoomId}: the state change, then the effects of the
\* render it causes: cleanup of the socket effect, load effect, socket effect
SelectRoom(r) ==
    /\ r # activeRoomId
    /\ Len(clients) <= MaxSwitches
    /\ Len(sockets) < MaxAppSockets
    /\ activeRoomId' = r
    /\ loads' = Append(loads, [room |-> r, from |-> Len(store[r])])
    /\ LET w1 == SocketDisconnect(World, CurrentClient)
           w2 == [w1 EXCEPT !.clients =
                     Append(@, NewClient(r, TRUE, DefaultReconnectDelayMs,
                                         FALSE, FALSE))]
       IN  Commit(SocketConnect(w2, Len(w2.clients)))
    /\ Quiet
    /\ UNCHANGED <<messages, sends, store>>

\* handleSend(text), up to `await apiClient.sendMessage(activeRoomId, text)`
Submit(text) ==
    /\ CanPost
    /\ sends' = Append(sends, [room |-> activeRoomId, content |-> text])
    /\ Quiet
    /\ UNCHANGED <<clients, sockets, timers, scheduled,
                   activeRoomId, messages, loads, store>>

\* sendMessage resolves: the backend saved the message; handleSend resumes
SendResolve(i) ==
    /\ i \in DOMAIN sends
    /\ Len(messages) < MaxTimeline
    /\ LET saved == Message(FreshId, sends[i].room, TRUE, sends[i].content)
       IN  /\ store' = [store EXCEPT ![sends[i].room] = Append(@, saved)]
           /\ messages' = AfterSend(messages, saved)
    /\ sends' = Remove(sends, i)
    /\ Quiet
    /\ UNCHANGED <<clients, sockets, timers, scheduled,
                   activeRoomId, loads>>

SendRejectSilent(i) ==
    /\ i \in DOMAIN sends
    /\ sends' = Remove(sends, i)
    /\ Quiet
    /\ UNCHANGED <<clients, sockets, timers, scheduled,
                   activeRoomId, messages, loads, store>>

\* sendMessage rejects: the catch block of handleSend
SendReject(i) ==
    /\ i \in DOMAIN sends
    /\ sends' = Remove(sends, i)
    /\ alerts' = 1
    /\ failedLoad' = "none"
    /\ callbacks' = << >>
    /\ sendResult' = "none"
    /\ lastCall' = NoCall
    /\ incomingRoom' = "none"
    /\ UNCHANGED <<clients, sockets, timers, scheduled,
                   activeRoomId, messages, loads, store>>

\* getMessages resolves with an array and the load effect's function resumes
LoadResolve(i, msgs) ==
    /\ i \in DOMAIN loads
    /\ msgs \in Backlogs(loads[i].room, loads[i].from)
    /\ messages' = AfterLoad(messages, loads[i].room, TRUE, msgs)
    /\ loads' = Remove(loads, i)
    /\ Quiet
    /\ UNCHANGED <<clients, sockets, timers, scheduled,
                   activeRoomId, sends, store>>

\* getMessages resolves with a body that is not an array (text)
LoadResolveOther(i) ==
    /\ i \in DOMAIN loads
    /\ messages' = AfterLoad(messages, loads[i].room, FALSE, << >>)
    /\ loads' = Remove(loads, i)
    /\ Quiet
    /\ UNCHANGED <<clients, sockets, timers, scheduled,
                   activeRoomId, sends, store>>

\* getMessages rejects: the catch block of the load effect
LoadReject(i) ==
    /\ i \in DOMAIN loads
    /\ messages' = AfterLoadFailure(messages, loads[i].room)
    /\ loads' = Remove(loads, i)
    /\ failedLoad' = loads[i].room
    /\ callbacks' = << >>
    /\ sendResult' = "none"
    /\ lastCall' = NoCall
    /\ alerts' = 0
    /\ incomingRoom' = "none"
    /\ UNCHANGED <<clients, sockets, timers, scheduled,
                   activeRoomId, sends, store>>

\* someone else posts to room r: the backend saves the message
RemotePost(r) ==
    /\ CanPost
    /\ store' = [store EXCEPT ![r] = Append(@, Message(FreshId, r, FALSE, "remote"))]
    /\ Quiet
    /\ UNCHANGED <<clients, sockets, timers, scheduled,
                   activeRoomId, messages, loads, sends>>

\* a message event on socket s: onmessage, then handleIncoming for each call.
\* The consumer is the App itself, so the calls show in messages and
\* incomingRoom; callbacks records the calls of SpecSocket's consumer only.
AppSockMessage(s, frame) ==
    /\ sockets[s].readyState = "OPEN"
    /\ LET calls == OnMessageCalls(s, SocketOnMessage(frame, FALSE))
       IN  /\ messages' = HandleAll(messages, clients[sockets[s].owner].room, calls)
           /\ incomingRoom' = RoomIdOf(calls[Len(calls)].val)
    /\ Len(messages') <= MaxTimeline
    /\ callbacks' = << >>
    /\ sendResult' = "none"
    /\ lastCall' = NoCall
    /\ alerts' = 0
    /\ failedLoad' = "none"
    /\ UNCHANGED <<clients, sockets, timers, scheduled,
                   activeRoomId, loads, sends, store>>

\* a socket event that runs no code of the App.  (The App passes no onError,
\* so an error event runs nothing at all and is no step of Spec.)
AppRest == alerts' = 0 /\ failedLoad' = "none" /\ incomingRoom' = "none"
             /\ UNCHANGED <<activeRoomId, messages, loads, sends, store>>

----------------------------------------------------------------------------
(* Spec: the App *)

Init ==
         \* s.connect() of the socket effect has run
    /\ clients = << [NewClient("general", TRUE, DefaultReconnectDelayMs,
                               FALSE, FALSE) EXCEPT !.ws = 1] >>
    /\ sockets = << [owner |-> 1, readyState |-> "CONNECTING", explicit |-> FALSE] >>
    /\ timers = {}
    /\ scheduled = << >>
    /\ callbacks = << >>
    /\ sendResult = "none"
    /\ lastCall = NoCall
    /\ incomingRoom = "none"
    /\ activeRoomId = "general"
    /\ messages = << >>
         \* the load effect has started getMessages("general")
    /\ loads = << [room |-> "general", from |-> Len(InitialStore["general"])] >>
    /\ sends = << >>
    /\ store = InitialStore
    /\ alerts = 0
    /\ failedLoad = "none"

Next ==
    \/ \E r \in Rooms : SelectRoom(r)
    \/ \E text \in Drafts : Submit(text)
    \/ \E i \in DOMAIN sends : SendResolve(i)
    \/ \E i \in DOMAIN sends : SendReject(i)
    \/ \E i \in DOMAIN loads :
         \E msgs \in Backlogs(loads[i].room, loads[i].from) : LoadResolve(i, msgs)
    \/ \E i \in DOMAIN loads : LoadResolveOther(i)
    \/ \E i \in DOMAIN loads : LoadReject(i)
    \/ \E r \in Rooms : RemotePost(r)
    \/ \E s \in DOMAIN sockets, f \in AppFrames : AppSockMessage(s, f)
    \/ \E s \in DOMAIN sockets : SockOpen(s) /\ AppRest
    \/ \E s \in DOMAIN sockets : SockClose(s) /\ AppRest
    \/ \E t \in timers : TimerFire(t, MaxAppSockets) /\ AppRest

Spec == Init /\ [][Next]_vars

----------------------------------------------------------------------------
(* Properties of the App (checked under Spec) *)

\* C1: the timeline holds each message identifier at most once, whatever
\* push events were handled and sends completed.
C1_NoDuplicateIds ==
    \A i, j \in DOMAIN messages : i # j => messages[i].id # messages[j].id

\* C2: a getMessages request that resolves (either way) for a room that is no
\* longer the active room leaves the timeline as it was.
C2_StaleLoadHasNoEffect ==
    [][\A i \in DOMAIN loads :
          (loads' = Remove(loads, i) /\ loads[i].room # activeRoomId)
             => messages' = messages]_vars

\* C6: the step that submits a message appends an is-mine entry with the
\* submitted content to the timeline, before sendMessage completes.
C6_SubmitAppendsOptimisticEntry ==
    [][Len(sends') > Len(sends)
          => /\ Len(messages') = Len(messages) + 1
             /\ SubSeq(messages', 1, Len(messages)) = messages
             /\ messages'[Len(messages')].me
             /\ messages'[Len(messages')].content = sends'[Len(sends')].content]_vars

\* C7: handling a push event whose roomId is not the active room changes
\* neither the timeline nor anything that could hold the event for later.
C7_OtherRoomEventDropped ==
    [][(incomingRoom' # "none" /\ incomingRoom' # activeRoomId)
          => /\ messages' = messages
             /\ UNCHANGED <<activeRoomId, loads, sends, store, clients, sockets,
                            timers, scheduled>>]_vars

\* an event of the other room was just handled while the timeline had an entry
C7_Witness ==
    /\ incomingRoom \in Rooms
    /\ incomingRoom # activeRoomId
    /\ messages # << >>

----------------------------------------------------------------------------
(* Properties of SocketClient (checked under SpecSocket) *)

Closes(s) == sockets[s].readyState # "CLOSED" /\ sockets'[s].readyState = "CLOSED"

\* C3: with autoReconnect on, the close event of a socket whose client never
\* had disconnect() called schedules a reconnect timer for that client.
C3_AbnormalCloseSchedulesReconnect ==
    [][\A s \in DOMAIN sockets :
          (/\ Closes(s)
           /\ clients[sockets[s].owner].autoReconnect
           /\ ~clients[sockets[s].owner].disconnected)
             => /\ Len(scheduled') = Len(scheduled) + 1
                /\ scheduled'[Len(scheduled')][1] = sockets[s].owner
                /\ Len(scheduled') \in timers']_vars

\* a socket closed, disconnect() was never called, and the timer is pending
C3_Witness ==
    /\ \E s \in DOMAIN sockets : sockets[s].readyState = "CLOSED"
    /\ clients[1].autoReconnect
    /\ ~clients[1].disconnected
    /\ scheduled # << >>
    /\ Len(scheduled) \in timers

\* C4: the delays handed to the reconnect timer never decrease and never
\* exceed the cap of 15000 ms, whatever reconnectDelayMs was configured.
C4_DelaysNonDecreasingAndCapped ==
    \A i \in DOMAIN scheduled :
        /\ scheduled[i][2] <= MaxReconnectDelayMs
        /\ i > 1 => scheduled[i - 1][2] <= scheduled[i][2]

\* C5: the close event of a socket that existed when disconnect() was called
\* schedules no reconnect, also when connect() was called again in between.
C5_NoReconnectAfterDisconnect ==
    [][\A s \in DOMAIN sockets :
          (Closes(s) /\ sockets[s].explicit) => scheduled' = scheduled]_vars

\* C8: the n-th delay scheduled is min(d * 2^(n-1), 15000), d being the
\* configured reconnectDelayMs.
C8_NthDelayIsDoubledAndCapped ==
    \A n \in DOMAIN scheduled :
        scheduled[n][2] =
            Min(clients[scheduled[n][1]].configuredDelay * (2 ^ (n - 1)),
                MaxReconnectDelayMs)

LiveSockets(c) ==
    {s \in DOMAIN sockets :
        sockets[s].owner = c /\ sockets[s].readyState \in {"CONNECTING", "OPEN"}}

\* C9: a SocketClient never has more than one socket that is connecting or open.
C9_AtMostOneLiveSocket ==
    \A c \in DOMAIN clients : Cardinality(LiveSockets(c)) <= 1

\* C10: onMessage is invoked only for frames of the socket the client
\* currently holds in _ws.
C10_OnlyCurrentSocketDelivers ==
    \A i \in DOMAIN callbacks :
        callbacks[i].cb = "onMessage"
            => clients[sockets[callbacks[i].sock].owner].ws = callbacks[i].sock

\* C11: a connect() that resumes from the credential lookup after disconnect()
\* was called during the lookup creates no socket and stores none in _ws.
C11_DisconnectCancelsSuspendedConnect ==
    [][\A c \in DOMAIN clients :
          (/\ clients'[c].awaiting < clients[c].awaiting
           /\ clients[c].closedExplicitly)
             => /\ Len(sockets') = Len(sockets)
                /\ clients'[c].ws = NoSocket]_vars

(***************************************************************************)
(* Properties of the App (checked under Spec), continued *)

\* C12: the step that switches the room also empties the timeline.
C12_SwitchEmptiesTimeline ==
    [][activeRoomId' # activeRoomId => messages' = << >>]_vars

IsPrefix(p, q) == Len(p) <= Len(q) /\ SubSeq(q, 1, Len(p)) = p

\* C13: a room switch starts exactly one history load and one new socket
\* client for the new room, and the resolution of the last load in flight
\* leaves the timeline holding (a part of) the backlog of the active room.
C13_LastLoadInstallsActiveRoom ==
    [][/\ activeRoomId' # activeRoomId
          => /\ Len(loads') = Len(loads) + 1
             /\ loads'[Len(loads')].room = activeRoomId'
             /\ Len(clients') = Len(clients) + 1
             /\ clients'[Len(clients')].room = activeRoomId'
       /\ (loads # << >> /\ loads' = << >>)
          => IsPrefix(messages', store[activeRoomId])]_vars

(***************************************************************************)
(* Properties of SocketClient (checked under SpecSocket), continued *)

\* C14: send() returns true exactly when it handed the frame to a socket,
\* that socket is OPEN, and with no OPEN socket it returns false; in either
\* case it changes nothing of the client, its sockets or its timers.
C14_SendTrueIffHandedToOpenSocket ==
    [][lastCall'.op = "send"
         => /\ (sendResult' = "true") <=> (lastCall'.to # NoSocket)
            /\ sendResult' \in {"true", "false"}
            /\ lastCall'.to # NoSocket
                  => sockets[lastCall'.to].readyState = "OPEN"
            /\ (\A s \in DOMAIN sockets : sockets[s].readyState # "OPEN")
                  => sendResult' = "false"
            /\ UNCHANGED <<clients, sockets, timers, scheduled>>]_vars

\* send() returned false while the socket in _ws was still connecting
C14_Witness ==
    /\ lastCall.op = "send"
    /\ sendResult = "false"
    /\ clients[1].ws # NoSocket
    /\ sockets[clients[1].ws].readyState = "CONNECTING"

\* C15: after disconnect() the client holds no socket, the socket it held is
\* closing or closed, no reconnect timer is pending and _closedExplicitly is
\* set; a disconnect() right after a disconnect() changes nothing.
C15_DisconnectIdempotent ==
    [][lastCall'.op = "disconnect"
         => /\ clients'[1].ws = NoSocket
            /\ clients'[1].closedExplicitly
            /\ timers' = {}
            /\ clients[1].ws # NoSocket
                  => sockets'[clients[1].ws].readyState \in {"CLOSING", "CLOSED"}
            /\ lastCall.op = "disconnect"
                  => UNCHANGED <<clients, sockets, timers, scheduled>>]_vars

\* disconnect() was called with a reconnect timer pending or fired before,
\* and no socket ever created is left connecting or open
C15_Witness ==
    /\ lastCall.op = "disconnect"
    /\ scheduled # << >>
    /\ \A s \in DOMAIN sockets : sockets[s].readyState \in {"CLOSING", "CLOSED"}

\* C16: an error event invokes onError once and changes nothing else: the
\* client, its sockets, the pending timers and the delay stay as they were.
C16_ErrorOnlyNotifies ==
    [][(callbacks' # << >> /\ callbacks'[1].cb = "onError")
         => /\ Len(callbacks') = 1
            /\ UNCHANGED <<clients, sockets, timers, scheduled>>]_vars

\* onError was invoked for the open socket the client still holds
C16_Witness ==
    /\ callbacks # << >>
    /\ callbacks[1].cb = "onError"
    /\ clients[1].ws = callbacks[1].sock
    /\ sockets[callbacks[1].sock].readyState = "OPEN"

\* C17: a message event invokes onMessage exactly once, and with the raw
\* text only when the frame is not JSON.
C17_OneInvocationPerFrame ==
    \A i \in DOMAIN callbacks :
        callbacks[i].cb = "onMessage"
            => /\ Len(callbacks) = 1
               /\ callbacks[i].val.t = "raw" => ~callbacks[i].val.frame.json

(***************************************************************************)
(* Properties of the App (checked under Spec), continued *)

LastSocket(c) ==
    CHOOSE s \in DOMAIN sockets :
        /\ sockets[s].owner = c
        /\ \A u \in DOMAIN sockets : sockets[u].owner = c => u <= s

\* C19: while autoReconnect is on and disconnect() was never called, a client
\* whose newest socket has closed always has the next attempt on its way: a
\* reconnect timer is pending or a connect() is waiting for its credential.
C19_ReconnectNeverGivesUp ==
    \A c \in DOMAIN clients :
        (/\ clients[c].autoReconnect
         /\ ~clients[c].disconnected
         /\ \E s \in DOMAIN sockets : sockets[s].owner = c
         /\ sockets[LastSocket(c)].readyState = "CLOSED")
            => \/ \E t \in timers : scheduled[t][1] = c
               \/ clients[c].awaiting > 0

(***************************************************************************)
(* Properties of the App (checked under Spec), continued *)

C21_FailedLoadEmptyOrUnchanged ==
    [][failedLoad' # "none"
         => (messages' = << >> \/ messages' = messages)]_vars

\* the load of the active room has failed, and the timeline is empty although
\* the backend holds messages of that room
C21_Witness ==
    /\ failedLoad = activeRoomId
    /\ messages = << >>
    /\ store[activeRoomId] # << >>

\* C22: a send that resolves for a room that is not the active room adds
\* nothing to the timeline.
C22_SendAppendedOnlyIfRoomActive ==
    [][\A i \in DOMAIN sends :
          (/\ sends' = Remove(sends, i)
           /\ store' # store
           /\ sends[i].room # activeRoomId)
             => messages' = messages]_vars

(***************************************************************************)
(* Properties of SocketClient (checked under SpecSocket), continued *)

\* C23: the close event of a socket that the client has replaced in _ws by a
\* later socket leaves the client as it was (_ws and reconnectDelayMs
\* included) and schedules no reconnect.
C23_StaleCloseChangesNothing ==
    [][\A s \in DOMAIN sockets :
          (/\ Closes(s)
           /\ clients[sockets[s].owner].ws # NoSocket
           /\ clients[sockets[s].owner].ws # s)
             => /\ clients' = clients
                /\ timers' = timers
                /\ scheduled' = scheduled]_vars

(***************************************************************************)
(* Properties of the App (checked under Spec), continued *)

\* C24: when the load of the room the App started in settles without a
\* failure and no room switch has happened, every entry of another author
\* that a push event put into the timeline during the load is still in it.
C24_AcceptedEventSurvivesLoad ==
    [][(/\ Len(clients') = 1
        /\ loads # << >>
        /\ loads' = << >>
        /\ failedLoad' = "none")
          => \A k \in DOMAIN messages :
                ~messages[k].me
                   => \E j \in DOMAIN messages' : messages'[j] = messages[k]]_vars

(***************************************************************************)
(* Properties of SocketClient (checked under SpecSocket), continued *)

\* C25: reconnectDelayMs of a client never decreases, and the open event of
\* one of its sockets leaves it as it is.
C25_DelayNeverReset ==
    [][\A c \in DOMAIN clients :
          /\ clients'[c].reconnectDelayMs >= clients[c].reconnectDelayMs
          /\ (\E s \in DOMAIN sockets :
                 /\ sockets[s].owner = c
                 /\ sockets[s].readyState = "CONNECTING"
                 /\ sockets'[s].readyState = "OPEN")
               => clients'[c].reconnectDelayMs = clients[c].reconnectDelayMs]_vars

\* the pending reconnect timers of client c
PendingTimers(c) == {t \in timers : scheduled[t][1] = c}

\* C26: a client never has more than one reconnect timer pending.
C26_AtMostOnePendingTimer ==
    \A c \in DOMAIN clients : Cardinality(PendingTimers(c)) <= 1

\* two sockets of the client have closed one after the other, no timer has
\* fired in between, and only the timer of the second close is pending
C26_Witness ==
    /\ ~clients[1].tokenFn
    /\ Len(sockets) = 2
    /\ \A s \in DOMAIN sockets : sockets[s].readyState = "CLOSED"
    /\ Len(scheduled) = 2
    /\ PendingTimers(1) = {2}

====
